---- MODULE Spec2Model ----
(***************************************************************************)
(* Model of the effect graph of bevy_hanabi (src/graph/node.rs): the flat  *)
(* slot arena of Graph with its linking API, and the eval operation of     *)
(* the node variants; and of the floating origin modifier                  *)
(* (src/modifier/floating_origin.rs) writing its update code.              *)
(***************************************************************************)
EXTENDS Integers, Sequences, FiniteSets, TLC

\* ------------------------------------------------------------------ bounds

\* Largest number of slots in the arena: add_node is called while the
\* node's slots fit.
MaxSlots == 5

\* Largest number of link / unlink / unlink_all calls in one run.
MaxOps == 3

\* Largest length of the input list handed to Node::eval.
MaxInputs == 3

\* Largest number of expressions in the Module the modifier works on.
MaxExprs == 3

\* --------------------------------------------------------- slot definitions

\* Option<ValueType>::None
None == "None"

\* SlotDir
Input == "Input"
Output == "Output"

\* SlotDef::input(name, value_type)
SlotDef_input(name, value_type) ==
    [name |-> name, dir |-> Input, value_type |-> value_type]

\* SlotDef::output(name, value_type)
SlotDef_output(name, value_type) ==
    [name |-> name, dir |-> Output, value_type |-> value_type]

\* Slot::new(node_id, slot_id, slot_def): a slot starts without links.
Slot_new(node_id, slot_id, slot_def) ==
    [node_id |-> node_id, id |-> slot_id, def |-> slot_def,
     linked_slots |-> <<>>]

\* Slot::dir / Slot::is_input / Slot::is_output
Slot_is_input(slot) == slot.def.dir = Input

Slot_is_output(slot) == slot.def.dir = Output

\* ------------------------------------------------------ external registries

\* The particle attributes the model draws from (crate::Attribute).
Attributes == {"POSITION", "F32X3_0"}

\* Attribute::name()
Attribute_name(attr) == IF attr = "POSITION" THEN "position" ELSE "f32x3_0"

\* Attribute::value_type()
Attribute_value_type(attr) == "Vec3"

\* BuiltInOperator::name()
BuiltInOperator_name(op) == IF op = "Time" THEN "time" ELSE "delta_time"

\* BuiltInOperator::value_type()
BuiltInOperator_value_type(op) == "Float"

\* -------------------------------------------------------------- expressions

\* Expressions are tagged tuples; a Handle<Expr> is the boxed expression.
LiteralExpr_new(v) == <<"Literal", v>>

AddExpr_new(lhs, rhs) == <<"Binary", "+", lhs, rhs>>

SubExpr_new(lhs, rhs) == <<"Binary", "-", lhs, rhs>>

MulExpr_new(lhs, rhs) == <<"Binary", "*", lhs, rhs>>

DivExpr_new(lhs, rhs) == <<"Binary", "/", lhs, rhs>>

AttributeExpr_new(attr) == <<"Attribute", attr>>

BuiltInExpr_new(op) == <<"BuiltIn", op>>

UnaryNumericOpExpr_new(input, op) == <<"Unary", op, input>>

\* -------------------------------------------------------------------- nodes

\* A node value: its variant, the attribute it reads (AttributeNode only)
\* and its slot definitions.
BinarySlots ==
    <<SlotDef_input("lhs", None), SlotDef_input("rhs", None),
      SlotDef_output("result", None)>>

AddNode_new == [kind |-> "Add", attr |-> None, slots |-> BinarySlots]

SubNode_new == [kind |-> "Sub", attr |-> None, slots |-> BinarySlots]

MulNode_new == [kind |-> "Mul", attr |-> None, slots |-> BinarySlots]

DivNode_new == [kind |-> "Div", attr |-> None, slots |-> BinarySlots]

AttributeNode_new(attr) ==
    [kind |-> "Attribute", attr |-> attr,
     slots |-> <<SlotDef_output(Attribute_name(attr),
                                Attribute_value_type(attr))>>]

\* Mutant of AttributeNode_set_attr: the new attribute is dropped.
AttributeNode_set_attr_noop(node, attr) == node

\* AttributeNode::set_attr: only the attr field is assigned.
AttributeNode_set_attr(node, attr) == [node EXCEPT !.attr = attr]

TimeNode_new ==
    [kind |-> "Time", attr |-> None,
     slots |-> <<SlotDef_output(BuiltInOperator_name("Time"),
                                BuiltInOperator_value_type("Time")),
                 SlotDef_output(BuiltInOperator_name("DeltaTime"),
                                BuiltInOperator_value_type("DeltaTime"))>>]

NormalizeNode_new ==
    [kind |-> "Normalize", attr |-> None,
     slots |-> <<SlotDef_output("in", None), SlotDef_output("out", None)>>]

\* Node::slots()
Node_slots(node) == node.slots

\* Result<Vec<Handle<Expr>>, ExprError>
Ok(outputs) == [ok |-> TRUE, outputs |-> outputs, error |-> "none"]

\* Err(ExprError::GraphEvalError(_)): no outputs come with an error.
Err_GraphEvalError == [ok |-> FALSE, outputs |-> <<>>, error |-> "GraphEvalError"]

\* AddNode::eval
AddNode_eval(node, inputs) ==
    IF Len(inputs) # 2 THEN Err_GraphEvalError
    ELSE Ok(<<AddExpr_new(inputs[1], inputs[2])>>)

\* Mutant of SubNode_eval: the operands are taken in the wrong order.
SubNode_eval_swapped(node, inputs) ==
    IF Len(inputs) # 2 THEN Err_GraphEvalError
    ELSE Ok(<<SubExpr_new(inputs[2], inputs[1])>>)

\* SubNode::eval
SubNode_eval(node, inputs) ==
    IF Len(inputs) # 2 THEN Err_GraphEvalError
    ELSE Ok(<<SubExpr_new(inputs[1], inputs[2])>>)

\* MulNode::eval
MulNode_eval(node, inputs) ==
    IF Len(inputs) # 2 THEN Err_GraphEvalError
    ELSE Ok(<<MulExpr_new(inputs[1], inputs[2])>>)

\* DivNode::eval
DivNode_eval(node, inputs) ==
    IF Len(inputs) # 2 THEN Err_GraphEvalError
    ELSE Ok(<<DivExpr_new(inputs[1], inputs[2])>>)

\* AttributeNode::eval
AttributeNode_eval(node, inputs) ==
    IF inputs # <<>> THEN Err_GraphEvalError
    ELSE Ok(<<AttributeExpr_new(node.attr)>>)

\* Mutant of TimeNode_eval: the two built-ins come in the wrong order.
TimeNode_eval_swapped(node, inputs) ==
    IF inputs # <<>> THEN Err_GraphEvalError
    ELSE Ok(<<BuiltInExpr_new("DeltaTime"), BuiltInExpr_new("Time")>>)

\* TimeNode::eval
TimeNode_eval(node, inputs) ==
    IF inputs # <<>> THEN Err_GraphEvalError
    ELSE Ok(<<BuiltInExpr_new("Time"), BuiltInExpr_new("DeltaTime")>>)

\* Mutant of NormalizeNode_eval: only an empty input list is refused.
NormalizeNode_eval_lenient(node, inputs) ==
    IF inputs = <<>> THEN Err_GraphEvalError
    ELSE Ok(<<UnaryNumericOpExpr_new(inputs[1], "Normalize")>>)

\* NormalizeNode::eval
NormalizeNode_eval(node, inputs) ==
    IF Len(inputs) # 1 THEN Err_GraphEvalError
    ELSE Ok(<<UnaryNumericOpExpr_new(inputs[1], "Normalize")>>)

\* -------------------------------------------------------- slot link updates

\* Vec::contains
Contains(seq, x) == \E k \in 1..Len(seq) : seq[k] = x

\* Iterator::position: the first index holding x (0 when there is none).
Position(seq, x) ==
    IF Contains(seq, x)
    THEN CHOOSE k \in 1..Len(seq) :
             seq[k] = x /\ \A j \in 1..(k - 1) : seq[j] # x
    ELSE 0

\* Vec::remove(index)
RemoveAt(seq, k) == SubSeq(seq, 1, k - 1) \o SubSeq(seq, k + 1, Len(seq))

\* Mutant of Slot_link_to: the input is pushed without looking for it.
Slot_link_to_push(slot, input) ==
    [slot EXCEPT !.linked_slots = Append(@, input)]

\* Slot::link_to: push the input unless the fan-out list already holds it.
\* (Its own assert!(is_output) repeats the caller's and never fires alone.)
Slot_link_to(slot, input) ==
    IF ~Contains(slot.linked_slots, input)
    THEN [slot EXCEPT !.linked_slots = Append(@, input)]
    ELSE slot

\* Slot::unlink_from, the bool it returns.
Slot_unlink_from_found(slot, input) == Contains(slot.linked_slots, input)

\* Slot::unlink_from, the slot it leaves.
Slot_unlink_from(slot, input) ==
    IF Contains(slot.linked_slots, input)
    THEN [slot EXCEPT
             !.linked_slots = RemoveAt(@, Position(slot.linked_slots, input))]
    ELSE slot

\* Mutant of Slot_link_input: an input that has a source keeps it.
Slot_link_input_keep(slot, output) ==
    IF slot.linked_slots = <<>>
    THEN [slot EXCEPT !.linked_slots = Append(@, output)]
    ELSE slot

\* Mutant of Slot_link_input: the new source is pushed behind the old one.
Slot_link_input_push(slot, output) ==
    [slot EXCEPT !.linked_slots = Append(@, output)]

\* Slot::link_input: push when empty, else overwrite entry 0.
Slot_link_input(slot, output) ==
    IF slot.linked_slots = <<>>
    THEN [slot EXCEPT !.linked_slots = Append(@, output)]
    ELSE [slot EXCEPT !.linked_slots[1] = output]

\* Slot::unlink_input
Slot_unlink_input(slot) == [slot EXCEPT !.linked_slots = <<>>]

\* -------------------------------------------------------------------- graph

\* Graph::get_slot_mut: assert!(index < self.slots.len()), ids are one-based.
InRange(s, id) == id >= 1 /\ id <= Len(s)

\* The outcome of a call: the slot arena it leaves and whether it returned
\* (ok) or stopped at a failed assertion, the arena being the one at the
\* point of failure.
Ret(s, ok) == [slots |-> s, ok |-> ok]

\* Graph::add_node, the slots pushed for the node's definitions.
RECURSIVE PushSlots(_, _, _, _)
PushSlots(s, node_id, defs, k) ==
    IF k > Len(defs) THEN s
    ELSE PushSlots(Append(s, Slot_new(node_id, Len(s) + 1, defs[k])),
                   node_id, defs, k + 1)

\* Mutant of Graph_add_node: the node id is the zero-based index.
Graph_add_node_zero_based(ns, s, node) ==
    LET node_id == Len(ns)
    IN  [nodes |-> Append(ns, node),
         slots |-> PushSlots(s, node_id, Node_slots(node), 1),
         node_id |-> node_id]

\* Graph::add_node: [nodes, slots, node_id]
Graph_add_node(ns, s, node) ==
    LET node_id == Len(ns) + 1
    IN  [nodes |-> Append(ns, node),
         slots |-> PushSlots(s, node_id, Node_slots(node), 1),
         node_id |-> node_id]

\* Mutant of Graph_link: the direction of the input end is not asserted.
Graph_link_unchecked_input(s, output, input) ==
    IF ~InRange(s, output) THEN Ret(s, FALSE)
    ELSE IF ~Slot_is_output(s[output]) THEN Ret(s, FALSE)
    ELSE LET s1 == [s EXCEPT ![output] = Slot_link_to(@, input)]
         IN  IF ~InRange(s1, input) THEN Ret(s1, FALSE)
             ELSE Ret([s1 EXCEPT ![input] = Slot_link_input(@, output)], TRUE)

\* Graph::link
Graph_link(s, output, input) ==
    IF ~InRange(s, output) THEN Ret(s, FALSE)
    ELSE IF ~Slot_is_output(s[output]) THEN Ret(s, FALSE)
    ELSE LET s1 == [s EXCEPT ![output] = Slot_link_to(@, input)]
         IN  IF ~InRange(s1, input) THEN Ret(s1, FALSE)
             ELSE IF ~Slot_is_input(s1[input]) THEN Ret(s1, FALSE)
             ELSE Ret([s1 EXCEPT ![input] = Slot_link_input(@, output)], TRUE)

\* Graph::unlink
Graph_unlink(s, output, input) ==
    IF ~InRange(s, output) THEN Ret(s, FALSE)
    ELSE IF ~Slot_is_output(s[output]) THEN Ret(s, FALSE)
    ELSE IF Slot_unlink_from_found(s[output], input)
         THEN LET s1 == [s EXCEPT ![output] = Slot_unlink_from(@, input)]
              IN  IF ~InRange(s1, input) THEN Ret(s1, FALSE)
                  ELSE IF ~Slot_is_input(s1[input]) THEN Ret(s1, FALSE)
                  ELSE Ret([s1 EXCEPT ![input] = Slot_unlink_input(@)], TRUE)
         ELSE Ret(s, TRUE)

\* Graph::unlink_all, the loop over the taken link list.
RECURSIVE UnlinkRemotes(_, _, _, _)
UnlinkRemotes(s, linked, k, slot_id) ==
    IF k > Len(linked) THEN Ret(s, TRUE)
    ELSE LET remote_id == linked[k]
         IN  IF ~InRange(s, remote_id) THEN Ret(s, FALSE)
             ELSE IF Slot_is_input(s[remote_id])
             THEN UnlinkRemotes(
                      [s EXCEPT ![remote_id] = Slot_unlink_input(@)],
                      linked, k + 1, slot_id)
             ELSE UnlinkRemotes(
                      [s EXCEPT ![remote_id] = Slot_unlink_from(@, slot_id)],
                      linked, k + 1, slot_id)

\* Graph::unlink_all
Graph_unlink_all(s, slot_id) ==
    IF ~InRange(s, slot_id) THEN Ret(s, FALSE)
    ELSE UnlinkRemotes([s EXCEPT ![slot_id].linked_slots = <<>>],
                       s[slot_id].linked_slots, 1, slot_id)

\* The ids of a sequence of slots: .map(|s| s.id()).collect()
IdsOf(seq) == [k \in 1..Len(seq) |-> seq[k].id]

\* Graph::slots: the arena filtered by owner, in arena order.
Graph_slots(s, node_id) ==
    LET keep(slot) == slot.node_id = node_id
    IN  IdsOf(SelectSeq(s, keep))

\* Mutant of Graph_input_slots: the owner is not compared.
Graph_input_slots_any_owner(s, node_id) ==
    LET keep(slot) == Slot_is_input(slot)
    IN  IdsOf(SelectSeq(s, keep))

\* Graph::input_slots
Graph_input_slots(s, node_id) ==
    LET keep(slot) == slot.node_id = node_id /\ Slot_is_input(slot)
    IN  IdsOf(SelectSeq(s, keep))

\* Graph::output_slots
Graph_output_slots(s, node_id) ==
    LET keep(slot) == slot.node_id = node_id /\ Slot_is_output(slot)
    IN  IdsOf(SelectSeq(s, keep))

\* The scan of the mutant below: the last slot with that name.
RECURSIVE FindByName_last(_, _, _)
FindByName_last(s, name, k) ==
    IF k > Len(s) THEN 0
    ELSE LET later == FindByName_last(s, name, k + 1)
         IN  IF later # 0 THEN later
             ELSE IF s[k].def.name = name THEN s[k].id ELSE 0

\* Graph::get_slot_id, iter().find(..).map(|s| s.id) from position k on:
\* the id of the first slot with that name, 0 standing for Option::None
\* (a SlotId is never 0).
RECURSIVE FindByName(_, _, _)
FindByName(s, name, k) ==
    IF k > Len(s) THEN 0
    ELSE IF s[k].def.name = name THEN s[k].id
    ELSE FindByName(s, name, k + 1)

\* Mutant of Graph_get_slot_id: the last slot of that name is returned.
Graph_get_slot_id_last(s, name) == FindByName_last(s, name, 1)

\* Graph::get_slot_id
Graph_get_slot_id(s, name) == FindByName(s, name, 1)

\* --------------------------------------------------- module and shader writer

\* Module::default(): the expression arena, empty. An ExprHandle is the
\* one-based index of an expression of the arena.
Module_default == <<>>

\* Module::push: a new arena entry and the handle to it.
Module_push(module, expr) ==
    [module |-> Append(module, expr), handle |-> Len(module) + 1]

PropertyExpr_new(property) == <<"Property", property>>

\* Module::attr
Module_attr(module, attr) == Module_push(module, AttributeExpr_new(attr))

\* Module::prop
Module_prop(module, property) == Module_push(module, PropertyExpr_new(property))

\* Module::lit
Module_lit(module, value) == Module_push(module, LiteralExpr_new(value))

\* The shader text of a leaf expression.
Expr_render(expr) ==
    IF expr[1] = "Attribute" THEN <<"particle.", Attribute_name(expr[2])>>
    ELSE IF expr[1] = "Property" THEN <<"properties.", expr[2]>>
    ELSE <<"literal", expr[2]>>

\* ShaderWriter::new: no code emitted, nothing rendered yet. The cache maps
\* a handle already rendered to the text eval returned for it.
ShaderWriter_new == [main_code |-> <<>>, cache |-> <<>>]

Ok_text(text) == [ok |-> TRUE, text |-> text, error |-> <<>>]

Err_ExprError(handle) ==
    [ok |-> FALSE, text |-> <<>>, error |-> <<"ExprError", handle>>]

\* What rendering a handle not yet in the cache comes to: the text alone
\* ("text"), a statement appended to main_code that binds the text to a
\* local variable, whose name is returned ("stmt"), or an error ("error").
EvalOutcomes == {"text", "stmt", "error"}

Cached(cache, handle) == \E k \in 1..Len(cache) : cache[k][1] = handle

CacheGet(cache, handle) ==
    cache[CHOOSE k \in 1..Len(cache) : cache[k][1] = handle][2]

\* EvalContext::eval of ShaderWriter: a handle outside the arena is an
\* error; a handle rendered before gives the cached text and emits
\* nothing; otherwise the expression is rendered, with the given outcome.
ShaderWriter_eval(context, module, handle, outcome) ==
    IF handle \notin 1..Len(module)
    THEN [context |-> context, result |-> Err_ExprError(handle)]
    ELSE IF Cached(context.cache, handle)
    THEN [context |-> context,
          result |-> Ok_text(CacheGet(context.cache, handle))]
    ELSE IF outcome = "error"
    THEN [context |-> context, result |-> Err_ExprError(handle)]
    ELSE LET text == Expr_render(module[handle])
             value == IF outcome = "stmt" THEN <<"var", handle>> ELSE text
             code == IF outcome = "stmt"
                     THEN Append(context.main_code, <<"let", handle, text>>)
                     ELSE context.main_code
         IN  [context |-> [main_code |-> code,
                           cache |-> Append(context.cache, <<handle, value>>)],
              result |-> Ok_text(value)]

\* --------------------------------------------------- floating origin modifier

\* FloatingOriginModifier::new
FloatingOriginModifier_new(translation_offset) ==
    [translation_offset |-> translation_offset]

\* FloatingOriginModifier::via_property
FloatingOriginModifier_via_property(module, property) ==
    LET p == Module_prop(module, property)
    IN  [module |-> p.module, modifier |-> [translation_offset |-> p.handle]]

\* FloatingOriginModifier::constant
FloatingOriginModifier_constant(module, offset) ==
    LET l == Module_lit(module, offset)
    IN  [module |-> l.module, modifier |-> [translation_offset |-> l.handle]]

\* The block apply's format! produces: the recentering code with the
\* position attribute's name ({0}), the rendered offset attribute ({1})
\* and the rendered translation offset ({2}).
RecenterBlock(name, attr_pos_offset, expr) ==
    <<"recenter", name, attr_pos_offset, expr>>

Ok_unit == [ok |-> TRUE, error |-> <<>>]

Err(error) == [ok |-> FALSE, error |-> error]

\* Mutant of FloatingOriginModifier_apply: the block is appended without
\* looking at the result of the second evaluation.
FloatingOriginModifier_apply_unchecked(self, module, context, outcomes) ==
    LET a == Module_attr(module, "F32X3_0")
        e1 == ShaderWriter_eval(context, a.module, a.handle, outcomes[1])
        e2 == ShaderWriter_eval(e1.context, a.module, self.translation_offset,
                                outcomes[2])
        call1 == [handle |-> a.handle, result |-> e1.result]
        call2 == [handle |-> self.translation_offset, result |-> e2.result]
    IN  IF ~e1.result.ok
        THEN [module |-> a.module, context |-> e1.context,
              result |-> Err(e1.result.error), evals |-> <<call1>>]
        ELSE [module |-> a.module,
              context |-> [e2.context EXCEPT !.main_code =
                  Append(@, RecenterBlock(Attribute_name("POSITION"),
                                          e1.result.text, e2.result.text))],
              result |-> Ok_unit, evals |-> <<call1, call2>>]

\* FloatingOriginModifier::apply. outcomes[k] is what the k-th rendering
\* comes to; evals lists the calls of context.eval made, in order.
FloatingOriginModifier_apply(self, module, context, outcomes) ==
    LET a == Module_attr(module, "F32X3_0")
        e1 == ShaderWriter_eval(context, a.module, a.handle, outcomes[1])
        e2 == ShaderWriter_eval(e1.context, a.module, self.translation_offset,
                                outcomes[2])
        call1 == [handle |-> a.handle, result |-> e1.result]
        call2 == [handle |-> self.translation_offset, result |-> e2.result]
    IN  IF ~e1.result.ok
        THEN [module |-> a.module, context |-> e1.context,
              result |-> Err(e1.result.error), evals |-> <<call1>>]
        ELSE IF ~e2.result.ok
        THEN [module |-> a.module, context |-> e2.context,
              result |-> Err(e2.result.error), evals |-> <<call1, call2>>]
        ELSE [module |-> a.module,
              context |-> [e2.context EXCEPT !.main_code =
                  Append(@, RecenterBlock(Attribute_name("POSITION"),
                                          e1.result.text, e2.result.text))],
              result |-> Ok_unit, evals |-> <<call1, call2>>]

\* -------------------------------------------------------------------- state

VARIABLES
    nodes,      \* Graph::nodes
    slots,      \* Graph::slots, the flat slot arena
    panicked,   \* TRUE once a call stopped at a failed assertion
    call,       \* the last call made: [op, a, b, ok]
    pre,        \* the slot arena as it was before the last call
    nops,       \* number of link / unlink / unlink_all calls made since
                \* the initial state
    enode,      \* the node Node::eval is called on
    einputs,    \* the inputs handed to Node::eval
    eresult,    \* what Node::eval returned
    elast,      \* the last call on enode, and the attribute last given
                \* to it by new or set_attr: [op, attr]
    fo_module,  \* the Module handed to the modifier: its expression arena
    fo_modifier,\* the FloatingOriginModifier
    fo_writer,  \* the ShaderWriter handed to apply: [main_code, cache]
    fo_result,  \* what the last apply returned
    fo_evals,   \* the calls of context.eval the last apply made, in order
    fo_applies  \* number of apply calls made

vars ==
    <<nodes, slots, panicked, call, pre, nops, enode, einputs, eresult, elast,
      fo_module, fo_modifier, fo_writer, fo_result, fo_evals, fo_applies>>

graph_vars == <<nodes, slots, panicked, call, pre, nops>>

eval_vars == <<enode, einputs, eresult, elast>>

modifier_vars ==
    <<fo_module, fo_modifier, fo_writer, fo_result, fo_evals, fo_applies>>

\* The nodes handed to add_node: one node of each slot layout (two inputs
\* and an output, two outputs, one output). The graph reads a node only
\* through slots().
GraphNodes == {AddNode_new, NormalizeNode_new, AttributeNode_new("POSITION")}

\* The slot ids handed to the linking API: every id of the arena and one
\* past its end.
SlotIds == 1..(Len(slots) + 1)

NoResult == [ok |-> FALSE, outputs |-> <<>>, error |-> "not called"]

NoApply == [ok |-> FALSE, error |-> <<"not called">>]

\* A modifier made by new from the first handle, with a fresh module and a
\* fresh writer.
ModifierInit ==
    /\ fo_module = Module_default
    /\ fo_modifier = FloatingOriginModifier_new(1)
    /\ fo_writer = ShaderWriter_new
    /\ fo_result = NoApply
    /\ fo_evals = <<>>
    /\ fo_applies = 0

\* Graph::new
GraphInit ==
    /\ nodes = <<>>
    /\ slots = <<>>
    /\ panicked = FALSE
    /\ call = [op |-> "new", a |-> 0, b |-> 0, ok |-> TRUE]
    /\ pre = <<>>
    /\ nops = 0

Init ==
    /\ GraphInit
    /\ enode = AddNode_new
    /\ einputs = <<>>
    /\ eresult = NoResult
    /\ elast = [op |-> "new", attr |-> None]
    /\ ModifierInit

AddNode(node) ==
    /\ ~panicked
    /\ Len(slots) + Len(Node_slots(node)) <= MaxSlots
    /\ LET r == Graph_add_node(nodes, slots, node)
       IN  /\ nodes' = r.nodes
           /\ slots' = r.slots
           /\ call' = [op |-> "add_node", a |-> r.node_id, b |-> 0, ok |-> TRUE]
    /\ pre' = slots
    /\ UNCHANGED <<panicked, nops, eval_vars, modifier_vars>>

Link(output, input) ==
    /\ ~panicked
    /\ nops < MaxOps
    /\ LET r == Graph_link(slots, output, input)
       IN  /\ slots' = r.slots
           /\ panicked' = ~r.ok
           /\ call' = [op |-> "link", a |-> output, b |-> input, ok |-> r.ok]
    /\ pre' = slots
    /\ nops' = nops + 1
    /\ UNCHANGED <<nodes, eval_vars, modifier_vars>>

Unlink(output, input) ==
    /\ ~panicked
    /\ nops < MaxOps
    /\ LET r == Graph_unlink(slots, output, input)
       IN  /\ slots' = r.slots
           /\ panicked' = ~r.ok
           /\ call' = [op |-> "unlink", a |-> output, b |-> input, ok |-> r.ok]
    /\ pre' = slots
    /\ nops' = nops + 1
    /\ UNCHANGED <<nodes, eval_vars, modifier_vars>>

UnlinkAll(slot_id) ==
    /\ ~panicked
    /\ nops < MaxOps
    /\ LET r == Graph_unlink_all(slots, slot_id)
       IN  /\ slots' = r.slots
           /\ panicked' = ~r.ok
           /\ call' = [op |-> "unlink_all", a |-> slot_id, b |-> 0, ok |-> r.ok]
    /\ pre' = slots
    /\ nops' = nops + 1
    /\ UNCHANGED <<nodes, eval_vars, modifier_vars>>

Next ==
    \/ \E node \in GraphNodes : AddNode(node)
    \/ \E output \in SlotIds, input \in SlotIds : Link(output, input)
    \/ \E output \in SlotIds, input \in SlotIds : Unlink(output, input)
    \/ \E slot_id \in SlotIds : UnlinkAll(slot_id)

Spec == Init /\ [][Next]_vars

\* A graph in use: add_node(AddNode) gave slots 1 lhs, 2 rhs (inputs) and
\* 3 result (output), add_node(AttributeNode) gave slot 4 (output), and
\* input 1 was linked to output 3 and then re-linked to output 4.
RelinkedGraph ==
    LET g1 == Graph_add_node(<<>>, <<>>, AddNode_new)
        g2 == Graph_add_node(g1.nodes, g1.slots, AttributeNode_new("POSITION"))
        l1 == Graph_link(g2.slots, 3, 1)
        l2 == Graph_link(l1.slots, 4, 1)
    IN  [nodes |-> g2.nodes, slots |-> l2.slots, pre |-> l1.slots, ok |-> l2.ok]

RelinkInit ==
    /\ nodes = RelinkedGraph.nodes
    /\ slots = RelinkedGraph.slots
    /\ panicked = ~RelinkedGraph.ok
    /\ call = [op |-> "link", a |-> 4, b |-> 1, ok |-> RelinkedGraph.ok]
    /\ pre = RelinkedGraph.pre
    /\ nops = 0
    /\ enode = AddNode_new
    /\ einputs = <<>>
    /\ eresult = NoResult
    /\ elast = [op |-> "new", attr |-> None]
    /\ ModifierInit

\* The linking API used on from the re-linked graph.
RelinkSpec == RelinkInit /\ [][Next]_vars

\* ---------------------------------------------------------------- Node::eval

\* The nodes eval is called on: every variant as its constructor builds it.
EvalNodes ==
    {AddNode_new, SubNode_new, MulNode_new, DivNode_new, TimeNode_new,
     NormalizeNode_new} \cup {AttributeNode_new(a) : a \in Attributes}

\* The expression handles handed to eval.
InputExprs == {LiteralExpr_new(2), LiteralExpr_new(3)}

RECURSIVE SeqsUpTo(_, _)
SeqsUpTo(S, n) ==
    IF n = 0 THEN {<<>>}
    ELSE LET shorter == SeqsUpTo(S, n - 1)
         IN  shorter \cup {Append(q, x) : q \in {r \in shorter : Len(r) = n - 1},
                                          x \in S}

InputLists == SeqsUpTo(InputExprs, MaxInputs)

EvalInit ==
    /\ GraphInit
    /\ enode \in EvalNodes
    /\ einputs = <<>>
    /\ eresult = NoResult
    /\ elast = [op |-> "new", attr |-> enode.attr]
    /\ ModifierInit

EvalAddNode(inputs) ==
    /\ enode.kind = "Add"
    /\ einputs' = inputs
    /\ eresult' = AddNode_eval(enode, inputs)
    /\ elast' = [elast EXCEPT !.op = "eval"]
    /\ UNCHANGED <<enode, graph_vars, modifier_vars>>

EvalSubNode(inputs) ==
    /\ enode.kind = "Sub"
    /\ einputs' = inputs
    /\ eresult' = SubNode_eval(enode, inputs)
    /\ elast' = [elast EXCEPT !.op = "eval"]
    /\ UNCHANGED <<enode, graph_vars, modifier_vars>>

EvalMulNode(inputs) ==
    /\ enode.kind = "Mul"
    /\ einputs' = inputs
    /\ eresult' = MulNode_eval(enode, inputs)
    /\ elast' = [elast EXCEPT !.op = "eval"]
    /\ UNCHANGED <<enode, graph_vars, modifier_vars>>

EvalDivNode(inputs) ==
    /\ enode.kind = "Div"
    /\ einputs' = inputs
    /\ eresult' = DivNode_eval(enode, inputs)
    /\ elast' = [elast EXCEPT !.op = "eval"]
    /\ UNCHANGED <<enode, graph_vars, modifier_vars>>

EvalAttributeNode(inputs) ==
    /\ enode.kind = "Attribute"
    /\ einputs' = inputs
    /\ eresult' = AttributeNode_eval(enode, inputs)
    /\ elast' = [elast EXCEPT !.op = "eval"]
    /\ UNCHANGED <<enode, graph_vars, modifier_vars>>

EvalTimeNode(inputs) ==
    /\ enode.kind = "Time"
    /\ einputs' = inputs
    /\ eresult' = TimeNode_eval(enode, inputs)
    /\ elast' = [elast EXCEPT !.op = "eval"]
    /\ UNCHANGED <<enode, graph_vars, modifier_vars>>

EvalNormalizeNode(inputs) ==
    /\ enode.kind = "Normalize"
    /\ einputs' = inputs
    /\ eresult' = NormalizeNode_eval(enode, inputs)
    /\ elast' = [elast EXCEPT !.op = "eval"]
    /\ UNCHANGED <<enode, graph_vars, modifier_vars>>

SetAttr(attr) ==
    /\ enode.kind = "Attribute"
    /\ enode' = AttributeNode_set_attr(enode, attr)
    /\ elast' = [op |-> "set_attr", attr |-> attr]
    /\ UNCHANGED <<einputs, eresult, graph_vars, modifier_vars>>

EvalNext ==
    \/ \E inputs \in InputLists : EvalAddNode(inputs)
    \/ \E inputs \in InputLists : EvalSubNode(inputs)
    \/ \E inputs \in InputLists : EvalMulNode(inputs)
    \/ \E inputs \in InputLists : EvalDivNode(inputs)
    \/ \E inputs \in InputLists : EvalAttributeNode(inputs)
    \/ \E inputs \in InputLists : EvalTimeNode(inputs)
    \/ \E inputs \in InputLists : EvalNormalizeNode(inputs)
    \/ \E attr \in Attributes : SetAttr(attr)

EvalSpec == EvalInit /\ [][EvalNext]_vars

\* ------------------------------------------------ FloatingOriginModifier use

\* The handles handed to new: every handle of a full module.
ExprHandles == 1..MaxExprs

Properties == {"offset"}

\* The constant offsets handed to constant: Vec3::ZERO and Vec3::X.
Offsets == {"ZERO", "X"}

New(translation_offset) ==
    /\ fo_modifier' = FloatingOriginModifier_new(translation_offset)
    /\ UNCHANGED <<fo_module, fo_writer, fo_result, fo_evals, fo_applies>>
    /\ UNCHANGED <<graph_vars, eval_vars>>

ViaProperty(property) ==
    /\ Len(fo_module) < MaxExprs
    /\ LET r == FloatingOriginModifier_via_property(fo_module, property)
       IN  /\ fo_module' = r.module
           /\ fo_modifier' = r.modifier
    /\ UNCHANGED <<fo_writer, fo_result, fo_evals, fo_applies>>
    /\ UNCHANGED <<graph_vars, eval_vars>>

Constant(offset) ==
    /\ Len(fo_module) < MaxExprs
    /\ LET r == FloatingOriginModifier_constant(fo_module, offset)
       IN  /\ fo_module' = r.module
           /\ fo_modifier' = r.modifier
    /\ UNCHANGED <<fo_writer, fo_result, fo_evals, fo_applies>>
    /\ UNCHANGED <<graph_vars, eval_vars>>

Apply(outcomes) ==
    /\ Len(fo_module) < MaxExprs
    /\ LET r == FloatingOriginModifier_apply(fo_modifier, fo_module,
                                             fo_writer, outcomes)
       IN  /\ fo_module' = r.module
           /\ fo_writer' = r.context
           /\ fo_result' = r.result
           /\ fo_evals' = r.evals
    /\ fo_applies' = fo_applies + 1
    /\ UNCHANGED <<fo_modifier, graph_vars, eval_vars>>

ApplyNext ==
    \/ \E translation_offset \in ExprHandles : New(translation_offset)
    \/ \E property \in Properties : ViaProperty(property)
    \/ \E offset \in Offsets : Constant(offset)
    \/ \E o1 \in EvalOutcomes, o2 \in EvalOutcomes : Apply(<<o1, o2>>)

ApplySpec == Init /\ [][ApplyNext]_vars

\* ------------------------------------------------------------------- claims

\* The last call was op and returned normally.
Returned(op) == call.op = op /\ call.ok

\* A step of the linking API whose call was op.
Called(op) == nops' = nops + 1 /\ call'.op = op

SlotIndices == 1..Len(slots)

InputSlots == {k \in SlotIndices : slots[k].def.dir = Input}

OutputSlots == {k \in SlotIndices : slots[k].def.dir = Output}

\* The outputs whose fan-out list holds input i.
FanOutHolders(i) ==
    {o \in OutputSlots : \E k \in 1..Len(slots[o].linked_slots) :
                             slots[o].linked_slots[k] = i}

\* C1: after link(o, i) returned, i's link list is exactly [o] and i is in
\* o's fan-out list.
C1_LinkPost ==
    Returned("link") =>
        /\ slots[call.b].linked_slots = <<call.a>>
        /\ call.a \in FanOutHolders(call.b)

\* C1 witness: link(o, i) returned for an input that had another source
\* before (the earlier output still lists it), so a source was replaced.
C1_Witness ==
    /\ Returned("link")
    /\ \E o1 \in FanOutHolders(call.b) : o1 # call.a

\* C2: no input slot ever has more than one entry in its link list.
C2_InputAtMostOne ==
    \A i \in InputSlots : Len(slots[i].linked_slots) <= 1

\* C2 witness: an input that was linked to two different outputs in turn
\* holds one source.
C2_Witness ==
    \E i \in InputSlots :
        /\ Len(slots[i].linked_slots) = 1
        /\ Cardinality(FanOutHolders(i)) = 2

\* C3 (as claimed): after calls that returned, i is in o's fan-out list
\* exactly when o is i's linked source.
C3_TwoSided ==
    ~panicked =>
        \A o \in OutputSlots, i \in InputSlots :
            (o \in FanOutHolders(i)) <=> (slots[i].linked_slots = <<o>>)

\* C4 (as claimed): unlink(o, i) removes i from o's fan-out list and empties
\* i's link list when i's source is o, and changes no link list otherwise.
C4_UnlinkFrame ==
    [][Called("unlink") =>
          LET o == call'.a
              i == call'.b
          IN  IF i \in InputSlots /\ o \in OutputSlots
                 /\ slots[i].linked_slots = <<o>>
              THEN /\ slots'[i].linked_slots = <<>>
                   /\ ~Contains(slots'[o].linked_slots, i)
                   /\ \A k \in SlotIndices \ {o, i} : slots'[k] = slots[k]
              ELSE slots' = slots]_vars

\* C5 (as claimed): after unlink_all(s) returned, s has no links and no slot
\* has s in its link list.
C5_UnlinkAllSevers ==
    Returned("unlink_all") =>
        /\ slots[call.a].linked_slots = <<>>
        /\ \A k \in SlotIndices : ~Contains(slots[k].linked_slots, call.a)

\* C6 (as claimed): link(output, input) with an end of the wrong direction
\* fails without having modified any link list.
C6_LinkChecksFirst ==
    [][(/\ Called("link")
        /\ \/ call'.a \in InputSlots
           \/ call'.b \in OutputSlots)
       => (~call'.ok /\ slots' = slots)]_vars

\* C7 (as claimed): link, unlink and unlink_all fail when any of their slot
\* ids is out of range of the arena.
C7_OutOfRangeFails ==
    (/\ call.op \in {"link", "unlink", "unlink_all"}
     /\ \/ call.a \notin SlotIndices
        \/ call.op # "unlink_all" /\ call.b \notin SlotIndices)
    => ~call.ok

\* eval has been called on enode with einputs.
Evaluated == eresult # NoResult

\* The number of slot definitions of a node with direction dir.
RECURSIVE CountDir(_, _, _)
CountDir(defs, dir, k) ==
    IF k > Len(defs) THEN 0
    ELSE (IF defs[k].dir = dir THEN 1 ELSE 0) + CountDir(defs, dir, k + 1)

\* C8 (as claimed): eval succeeds exactly when it is given as many inputs as
\* the node declares Input slots, then returns as many outputs as the node
\* declares Output slots, and else returns a GraphEvalError and no output.
C8_EvalMatchesSlots ==
    Evaluated =>
        /\ eresult.ok <=> Len(einputs) = CountDir(Node_slots(enode), Input, 1)
        /\ eresult.ok =>
               Len(eresult.outputs) = CountDir(Node_slots(enode), Output, 1)
        /\ ~eresult.ok =>
               eresult.error = "GraphEvalError" /\ eresult.outputs = <<>>

\* The operator each binary node stands for.
BinaryOperator(kind) ==
    CASE kind = "Add" -> "+"
      [] kind = "Sub" -> "-"
      [] kind = "Mul" -> "*"
      [] kind = "Div" -> "/"

BinaryKinds == {"Add", "Sub", "Mul", "Div"}

\* C9: a binary node's eval of [lhs, rhs] returns the one expression
\* lhs <op> rhs with the node's own operator, operands in order and not
\* reduced; with any other number of inputs it returns a GraphEvalError.
C9_BinaryEval ==
    (Evaluated /\ enode.kind \in BinaryKinds) =>
        IF Len(einputs) = 2
        THEN /\ eresult.ok
             /\ eresult.outputs =
                    <<<<"Binary", BinaryOperator(enode.kind),
                        einputs[1], einputs[2]>>>>
        ELSE ~eresult.ok /\ eresult.error = "GraphEvalError"

\* C9 witness: a subtraction of two different operands was built.
C9_Witness ==
    /\ Evaluated
    /\ enode.kind = "Sub"
    /\ eresult.ok
    /\ Len(einputs) = 2
    /\ einputs[1] # einputs[2]

\* C10: NormalizeNode's eval of one input returns the one expression
\* normalize(input); with no input, or two or more, a GraphEvalError.
C10_NormalizeEval ==
    (Evaluated /\ enode.kind = "Normalize") =>
        IF Len(einputs) = 1
        THEN /\ eresult.ok
             /\ eresult.outputs = <<<<"Unary", "Normalize", einputs[1]>>>>
        ELSE ~eresult.ok /\ eresult.error = "GraphEvalError"

\* C10 witness: normalize was built from one input.
C10_Witness ==
    /\ Evaluated
    /\ enode.kind = "Normalize"
    /\ eresult.ok
    /\ Len(einputs) = 1

\* C11: AttributeNode's eval of no input returns the one Attribute expression
\* of the attribute last given to the node by new or set_attr; with any
\* input it returns a GraphEvalError.
C11_AttributeEval ==
    (elast.op = "eval" /\ enode.kind = "Attribute") =>
        IF einputs = <<>>
        THEN /\ eresult.ok
             /\ eresult.outputs = <<<<"Attribute", elast.attr>>>>
        ELSE ~eresult.ok /\ eresult.error = "GraphEvalError"

\* C11 witness: eval succeeded on a node whose attribute set_attr had
\* changed from the one new was given (the slot still carries new's name).
C11_Witness ==
    /\ elast.op = "eval"
    /\ enode.kind = "Attribute"
    /\ eresult.ok
    /\ enode.slots[1].name # Attribute_name(elast.attr)

\* C12: TimeNode's eval of no input returns exactly [Time, DeltaTime], the
\* k-th output being the built-in the node's k-th declared output slot is
\* named after; with any input it returns a GraphEvalError.
C12_TimeEval ==
    (Evaluated /\ enode.kind = "Time") =>
        IF einputs = <<>>
        THEN /\ eresult.ok
             /\ eresult.outputs = <<<<"BuiltIn", "Time">>,
                                    <<"BuiltIn", "DeltaTime">>>>
             /\ Len(Node_slots(enode)) = 2
             /\ \A k \in 1..2 :
                    /\ Node_slots(enode)[k].dir = Output
                    /\ Node_slots(enode)[k].name =
                           BuiltInOperator_name(eresult.outputs[k][2])
        ELSE ~eresult.ok /\ eresult.error = "GraphEvalError"

\* C12 witness: the time node was evaluated with no input.
C12_Witness ==
    /\ Evaluated
    /\ enode.kind = "Time"
    /\ einputs = <<>>
    /\ Len(eresult.outputs) = 2

\* The members of a sequence of slot ids.
Members(ids) == {ids[k] : k \in 1..Len(ids)}

\* C13: right after id = add_node(node), slots(id) is one distinct slot id
\* per definition of node.slots(), the k-th slot carrying the k-th
\* definition and no link; input_slots(id) and output_slots(id) are the
\* Input and the Output subsequences of slots(id), disjoint and together
\* all of it.
C13_AddNodeRoundTrip ==
    Returned("add_node") =>
        LET id == call.a
            defs == Node_slots(nodes[id])
            all == Graph_slots(slots, id)
            ins == Graph_input_slots(slots, id)
            outs == Graph_output_slots(slots, id)
            isIn(sid) == slots[sid].def.dir = Input
            isOut(sid) == slots[sid].def.dir = Output
        IN  /\ Len(all) = Len(defs)
            /\ \A k \in 1..Len(all) :
                   /\ all[k] \in SlotIndices
                   /\ slots[all[k]].def = defs[k]
                   /\ slots[all[k]].linked_slots = <<>>
                   /\ \A j \in 1..(k - 1) : all[j] # all[k]
            /\ ins = SelectSeq(all, isIn)
            /\ outs = SelectSeq(all, isOut)
            /\ Members(ins) \cap Members(outs) = {}
            /\ Members(ins) \cup Members(outs) = Members(all)

\* C13 witness: a node with inputs and an output was added to an arena that
\* already held another node's slots.
C13_Witness ==
    /\ Returned("add_node")
    /\ call.a = 2
    /\ nodes[2].kind = "Add"

\* No entry occurs twice in a list.
NoDuplicate(seq) ==
    \A j \in 1..Len(seq), k \in 1..Len(seq) : seq[j] = seq[k] => j = k

\* C14: no output's fan-out list ever holds the same input twice, and
\* link(o, i) called again right after link(o, i) returned leaves every
\* link list as the first call left it.
C14_LinkIdempotent ==
    /\ [](\A o \in OutputSlots : NoDuplicate(slots[o].linked_slots))
    /\ [][(/\ Returned("link")
           /\ Called("link")
           /\ call'.a = call.a
           /\ call'.b = call.b)
          => (call'.ok /\ slots' = slots)]_vars

\* C14 witness: the second call of a run is a link that returned and
\* changed no list, so the first call was the same link.
C14_Witness ==
    /\ nops = 2
    /\ Returned("link")
    /\ pre = slots

\* The names get_slot_id is asked for: every slot name of the graph's nodes
\* and one no slot has.
QueriedNames == {"lhs", "rhs", "result", "in", "out", "position", "missing"}

\* The arena positions whose slot has that name.
Named(name) == {k \in SlotIndices : slots[k].def.name = name}

\* C15: get_slot_id(name) is the id of the first slot of the arena with that
\* name, and None exactly when no slot has it.
C15_GetSlotIdFirst ==
    \A name \in QueriedNames :
        LET found == Graph_get_slot_id(slots, name)
        IN  IF Named(name) = {} THEN found = 0
            ELSE /\ found \in Named(name)
                 /\ \A k \in Named(name) : found <= k

\* C15 witness: two nodes have a slot of the same name and the lookup
\* answers with the slot of the node added first.
C15_Witness ==
    \E name \in QueriedNames :
        /\ \E j \in Named(name), k \in Named(name) :
               slots[j].node_id # slots[k].node_id
        /\ slots[Graph_get_slot_id(slots, name)].node_id = 1

\* C16 (as claimed): an AttributeNode always declares exactly one slot, an
\* Output named and typed after the attribute the node reads.
C16_AttributeSlot ==
    enode.kind = "Attribute" =>
        /\ Len(Node_slots(enode)) = 1
        /\ Node_slots(enode)[1].dir = Output
        /\ Node_slots(enode)[1].name = Attribute_name(enode.attr)
        /\ Node_slots(enode)[1].value_type = Attribute_value_type(enode.attr)

\* C17: ids are dense and one-based. The slot at arena position p (counted
\* from one) has SlotId p, the slots of each node are consecutive and carry
\* the node's definitions in declaration order, the k-th add_node returns
\* NodeId k, and add_node changes no slot that existed before it.
C17_DenseIds ==
    /\ [](/\ \A p \in SlotIndices : slots[p].id = p
          /\ \A n \in 1..Len(nodes) :
                 LET ids == Graph_slots(slots, n)
                     defs == Node_slots(nodes[n])
                 IN  /\ Len(ids) = Len(defs)
                     /\ \A k \in 1..Len(ids) :
                            /\ ids[k] = ids[1] + k - 1
                            /\ slots[ids[k]].node_id = n
                            /\ slots[ids[k]].def = defs[k])
    /\ [][Len(nodes') = Len(nodes) + 1 =>
              /\ call'.op = "add_node"
              /\ call'.a = Len(nodes) + 1
              /\ Len(slots') >= Len(slots)
              /\ \A p \in SlotIndices : slots'[p] = slots[p]]_vars

\* C17 witness: a second node was added to an arena that already held a
\* link.
C17_Witness ==
    /\ Returned("add_node")
    /\ call.a = 2
    /\ \E p \in SlotIndices : slots[p].linked_slots # <<>>

\* C18 (as claimed): unlink_all(s) leaves every link between two slots
\* other than s as it was: i's source is o after the call exactly when it
\* was before, and i is in o's fan-out list exactly when it was before.
C18_UnlinkAllFrame ==
    [][(Called("unlink_all") /\ call'.ok) =>
          \A o \in OutputSlots \ {call'.a}, i \in InputSlots \ {call'.a} :
              /\ (slots'[i].linked_slots = <<o>>)
                     <=> (slots[i].linked_slots = <<o>>)
              /\ Contains(slots'[o].linked_slots, i)
                     <=> Contains(slots[o].linked_slots, i)]_vars

\* C19 (as claimed): when input i has no source, link(o, i) followed at once
\* by unlink(o, i) leaves every link list as it was before the link.
C19_LinkUnlinkRoundTrip ==
    [][(/\ Returned("link")
        /\ pre[call.b].linked_slots = <<>>
        /\ Called("unlink")
        /\ call'.a = call.a
        /\ call'.b = call.b)
       => slots' = pre]_vars

ApplyCalled == fo_applies' = fo_applies + 1

\* The places of main_code that hold a recentering block.
Blocks(code) == {k \in 1..Len(code) : code[k][1] = "recenter"}

\* C21: apply evaluates the handle of the F32X3_0 attribute first and
\* translation_offset second; when an evaluation returns an error, apply
\* returns that error and main_code gains no recentering block; when both
\* succeed, apply returns Ok and its block, made of the two rendered texts,
\* is appended once, after everything the evaluations emitted.
C21_ApplyAppendsAfterEvals ==
    [][ApplyCalled =>
        LET log == fo_evals'
            old == fo_writer.main_code
            new == fo_writer'.main_code
            attr == Len(fo_module) + 1
            added == Blocks(new) \ Blocks(old)
            Failed == {k \in 1..Len(log) : ~log[k].result.ok}
        IN  /\ Len(new) >= Len(old)
            /\ SubSeq(new, 1, Len(old)) = old
            /\ Len(log) \in {1, 2}
            /\ log[1].handle = attr
            /\ fo_module'[attr] = AttributeExpr_new("F32X3_0")
            /\ Len(log) = 2 => log[2].handle = fo_modifier.translation_offset
            /\ Len(log) = 1 => ~log[1].result.ok
            /\ \A k \in Failed :
                   /\ fo_result' = Err(log[k].result.error)
                   /\ added = {}
            /\ Failed = {} =>
                   /\ fo_result' = Ok_unit
                   /\ added = {Len(new)}
                   /\ new[Len(new)] = RecenterBlock(Attribute_name("POSITION"),
                                                    log[1].result.text,
                                                    log[2].result.text)
    ]_vars

\* apply was called, its first evaluation emitted a statement and its
\* second one failed: apply returned the error and there is no block.
C21_Witness ==
    /\ fo_applies = 1
    /\ Len(fo_evals) = 2
    /\ fo_evals[1].result.ok
    /\ ~fo_evals[2].result.ok
    /\ fo_result = Err(fo_evals[2].result.error)
    /\ Len(fo_writer.main_code) = 1
    /\ Blocks(fo_writer.main_code) = {}

====
